---- MODULE Spec2Model ----
(***************************************************************************)
(* Model of the skill registry (tinywasm/skill): a Store over a relational *)
(* database with the relations categories/cats, skills and                 *)
(* parameters/params.  repository.go carries two Register variants:        *)
(*   "id"   : Register takes Skill.CategoryID (repository.go 114-166)      *)
(*   "name" : Register takes Skill.Category, a category name, and          *)
(*            auto-provisions the category (repository.go 308-376)         *)
(* Register is modelled statement by statement inside its transaction;     *)
(* the transaction works on a private copy (tx) of the committed database  *)
(* (db), taken by its first statement (BeginTx with default options opens  *)
(* a deferred transaction), that replaces db at Commit and is dropped by   *)
(* the deferred Rollback on every error return.                            *)
(* Spec runs one call at a time; SpecRead adds readers that run between    *)
(* the statements of a Register call, SpecConc a Register call of another  *)
(* goroutine that commits beside the call in progress.                     *)
(***************************************************************************)
EXTENDS Integers, Sequences, FiniteSets, TLC

VARIABLES
    variant,   \* which Store of repository.go is in use: "id" or "name"
    db,        \* committed database: [cats, skills, params], sets of rows
    pc,        \* position of the Register call in progress
    arg,       \* the Skill passed to the Register call
    tx,        \* the transaction's working copy of the database
    catID,     \* local variable catID of Register (name variant)
    skillID,   \* local variable skillID of Register
    k,         \* number of parameters of arg already inserted
    ret,       \* return value of the last Register call
    pre,       \* committed database the transaction of the last Register call
               \* starts from
    again,     \* the call repeats the last successful Register of its skill name
    last,      \* per skill name: the Skill of its last successful Register
    out,       \* result of the last read operation
    raced      \* a Register of another goroutine committed between BeginTx
               \* and the first statement of this call

vars == <<variant, db, pc, arg, tx, catID, skillID, k, ret, pre, again, last, out, raced>>

-----------------------------------------------------------------------------
(* Bounds of the model *)

MaxParams == 2     \* longest parameter list passed to Register
MaxParamId == 3    \* largest parameter row id the model lets the store assign
MaxCats == 1       \* most category rows seeded from outside (id variant)

-----------------------------------------------------------------------------
(* Texts are sequences of characters *)

SkillNames == { <<"a", "b">>, <<"B">> }
CatNames == { <<"f">>, <<"n">> }
Infos == { <<"x">>, <<"A", "_">> }
\* the parameters passed to Register: P1 and P2 share their name and differ
\* in type, description and required flag
P1 == [Name |-> <<"p">>, Type |-> <<"s">>, Info |-> <<"x">>, Required |-> TRUE]
P2 == [Name |-> <<"p">>, Type |-> <<"i">>, Info |-> <<"y">>, Required |-> FALSE]
P3 == [Name |-> <<"q">>, Type |-> <<"s">>, Info |-> <<"x">>, Required |-> FALSE]
ParamSeq == <<P1, P2, P3, P1>>
CategoryIDs == 1 .. 2

\* ASCII lower case of the characters in use
Lower(c) == CASE c = "A" -> "a" [] c = "B" -> "b" [] OTHER -> c

NULL == <<"NULL">>
EmptyDB == [cats |-> {}, skills |-> {}, params |-> {}]
NoSkill == [Name |-> <<>>]           \* no Skill value
NoOut == [op |-> "none"]             \* no read result

\* the parameter lists passed to Register: the prefixes of ParamSeq
ParamLists == { SubSeq(ParamSeq, 1, n) : n \in 0 .. MaxParams }

\* type Skill, as Register reads it: the id variant reads CategoryID, the
\* name variant reads Category
SkillsById ==
    [CategoryID : CategoryIDs, Name : SkillNames, Info : Infos, Parameters : ParamLists]
SkillsByName ==
    [Category : CatNames, Name : SkillNames, Info : Infos, Parameters : ParamLists]

Inputs(v) == IF v = "id" THEN SkillsById ELSE SkillsByName

\* the Skills registered where calls run side by side: every Skill named ab
\* and, beside it in the store, one Skill named B
ConcInputs(v) ==
    { s \in Inputs(v) :
        \/ s.Name = <<"a", "b">>
        \/ /\ s.Info = <<"x">>
           /\ s.Parameters = <<P1>>
           /\ IF v = "id" THEN s.CategoryID = 1 ELSE s.Category = <<"f">> }

-----------------------------------------------------------------------------
(* The store: SQL statements as operators on a database value *)

SetMax(S) == CHOOSE x \in S : \A y \in S : y <= x

\* INTEGER PRIMARY KEY: a new row gets the largest id in the table plus one
NextId(rows) == IF rows = {} THEN 1 ELSE SetMax({ r.id : r \in rows }) + 1

\* variant of InsertCategory without the ON CONFLICT clause and without the
\* unique index: a second row of the same name
InsertCategoryAlways(D, name) ==
    [D EXCEPT !.cats = @ \cup
        { [id |-> NextId(D.cats), name |-> name, description |-> NULL] }]

\* variant of InsertCategory with INSERT OR REPLACE: the row of that name is
\* deleted and a new row, with a new id, takes its place
InsertCategoryReplace(D, name) ==
    [D EXCEPT !.cats = { c \in @ : c.name # name } \cup
        { [id |-> NextId(D.cats), name |-> name, description |-> NULL] }]

\* INSERT INTO cats (name) VALUES (?) ON CONFLICT(name) DO NOTHING
InsertCategory(D, name) ==
    IF \E c \in D.cats : c.name = name
    THEN D
    ELSE [D EXCEPT !.cats = @ \cup
            { [id |-> NextId(D.cats), name |-> name, description |-> NULL] }]

\* SELECT id FROM cats WHERE name = ?
SelectCategoryId(D, name) == { c.id : c \in { c \in D.cats : c.name = name } }

\* variant of UpsertSkill that inserts a row whether or not the name exists
UpsertSkillNoConflict(D, cid, name, info) ==
    [D EXCEPT !.skills = @ \cup
        { [id |-> NextId(D.skills), cat_id |-> cid, name |-> name, info |-> info] }]

\* variant of UpsertSkill with INSERT OR REPLACE: the old row is deleted and
\* a new row, with a new id, takes its place
UpsertSkillReplace(D, cid, name, info) ==
    [D EXCEPT !.skills = { s \in @ : s.name # name } \cup
        { [id |-> NextId(D.skills), cat_id |-> cid, name |-> name, info |-> info] }]

\* variant of UpsertSkill whose DO UPDATE leaves cat_id alone
UpsertSkillKeepsCategory(D, cid, name, info) ==
    IF \E s \in D.skills : s.name = name
    THEN [D EXCEPT !.skills =
            { IF s.name = name THEN [s EXCEPT !.info = info] ELSE s : s \in @ }]
    ELSE [D EXCEPT !.skills = @ \cup
            { [id |-> NextId(D.skills), cat_id |-> cid, name |-> name, info |-> info] }]

\* INSERT INTO skills ... ON CONFLICT(name) DO UPDATE SET cat_id, info
UpsertSkill(D, cid, name, info) ==
    IF \E s \in D.skills : s.name = name
    THEN [D EXCEPT !.skills =
            { IF s.name = name THEN [s EXCEPT !.cat_id = cid, !.info = info] ELSE s
              : s \in @ }]
    ELSE [D EXCEPT !.skills = @ \cup
            { [id |-> NextId(D.skills), cat_id |-> cid, name |-> name, info |-> info] }]

\* ... RETURNING id
ReturningId(D, name) == { s.id : s \in { s \in D.skills : s.name = name } }

\* variant of DeleteParams that deletes nothing
DeleteParamsNone(D, sid) == D

\* variant of DeleteParams without the WHERE clause
DeleteParamsAll(D, sid) == [D EXCEPT !.params = {}]

\* DELETE FROM params WHERE skill_id = ?
DeleteParams(D, sid) ==
    [D EXCEPT !.params = { p \in @ : p.skill_id # sid }]

\* the ID field of an input Parameter: the zero value, or the id a caller
\* copied from a Parameter it read earlier
ParameterID(p) == IF p.Required THEN 1 ELSE 0

\* variant of InsertParam that stores the ID field of the input as the id
InsertParamWithID(D, sid, p) ==
    [D EXCEPT !.params = @ \cup
        { [id |-> ParameterID(p), skill_id |-> sid, name |-> p.Name,
           type |-> p.Type, info |-> p.Info, req |-> p.Required] }]

\* INSERT INTO params (skill_id, name, type, info, req) VALUES (?, ?, ?, ?, ?)
InsertParam(D, sid, p) ==
    [D EXCEPT !.params = @ \cup
        { [id |-> NextId(D.params), skill_id |-> sid, name |-> p.Name,
           type |-> p.Type, info |-> p.Info, req |-> p.Required] }]

\* the rows of D with a given skill name, and the params they own
SkillRows(D, name) == { s \in D.skills : s.name = name }
Owned(D, name) ==
    { p \in D.params : \E s \in SkillRows(D, name) : p.skill_id = s.id }
NotOwned(D, name) == D.params \ Owned(D, name)

-----------------------------------------------------------------------------
(* Errors: the failing step's message wrapping the cause *)

\* fmt.Errorf("<step>: %w", err) and fmt.Errorf("<step>: %s", value)
Err(step, value) == [step |-> step, value |-> value, isNil |-> FALSE]
Nil == [step |-> "", value |-> <<>>, isNil |-> TRUE]          \* the nil error
NoRet == [step |-> "none", value |-> <<>>, isNil |-> FALSE]   \* nothing returned yet

\* the errors of the storage layer that Register wraps: a failed or canceled
\* statement, and sql.ErrNoRows of QueryRow.Scan
StorageError == [step |-> "storage", value |-> <<>>, isNil |-> FALSE]
ErrNoRows == [step |-> "sql: no rows in result set", value |-> <<>>, isNil |-> FALSE]

\* fmt.Errorf("<step>: %w", err) in Register: the message, and the error
\* that errors.Unwrap gives back
Errorf(step, value, err) ==
    [step |-> step, value |-> value, isNil |-> FALSE, cause |-> err]

\* variant of StepName with the message of the skill upsert copied to the
\* delete
StepNameCopied(v, p) ==
    CASE p = "category" -> "upsert category"
      [] p = "catid" -> "get category id"
      [] p = "upsert" -> "upsert skill"
      [] p = "delete" -> "upsert skill"
      [] p = "prepare" -> IF v = "id" THEN "prepare parameter insert"
                                      ELSE "prepare param insert"
      [] p = "insert" -> IF v = "id" THEN "insert parameter" ELSE "insert param"
      [] p = "commit" -> "commit transaction"

\* the message Register wraps an error of the statement at pc with
StepName(v, p) ==
    CASE p = "category" -> "upsert category"
      [] p = "catid" -> "get category id"
      [] p = "upsert" -> "upsert skill"
      [] p = "delete" -> IF v = "id" THEN "delete parameters" ELSE "delete params"
      [] p = "prepare" -> IF v = "id" THEN "prepare parameter insert"
                                      ELSE "prepare param insert"
      [] p = "insert" -> IF v = "id" THEN "insert parameter" ELSE "insert param"
      [] p = "commit" -> "commit transaction"

\* variant of Rollback that keeps what the transaction wrote (statements
\* run outside a transaction)
RollbackKeeps(D, T) == T

\* defer tx.Rollback(): the committed database D stays, the working copy T
\* of the transaction is dropped
Rollback(D, T) == D

InFlight == { "category", "catid", "upsert", "delete", "prepare", "insert", "commit" }

-----------------------------------------------------------------------------
Init ==
    /\ variant \in { "id", "name" }
    /\ db = EmptyDB
    /\ pc = "idle"
    /\ arg = NoSkill
    /\ tx = EmptyDB
    /\ catID = 0
    /\ skillID = 0
    /\ k = 0
    /\ ret = NoRet
    /\ pre = EmptyDB
    /\ again = FALSE
    /\ last = [n \in SkillNames |-> NoSkill]
    /\ out = NoOut
    /\ raced = FALSE

\* a category row inserted from outside the Store (id variant: Register
\* never writes categories; the tests seed them)
SeedCategory ==
    /\ variant = "id"
    /\ pc = "idle"
    /\ out = NoOut
    /\ Cardinality(db.cats) < MaxCats
    /\ \E name \in CatNames :
         db' = [db EXCEPT !.cats = @ \cup
                  { [id |-> NextId(db.cats), name |-> name, description |-> <<"x">>] }]
    /\ UNCHANGED <<variant, pc, arg, tx, catID, skillID, k, ret, pre, again, last, out, raced>>

\* s.db.BeginTx(ctx, nil): the transaction is deferred, it reads nothing
\* before its first statement
Begin ==
    /\ pc = "idle"
    /\ out = NoOut
    /\ \E s \in Inputs(variant) :
         /\ NextId(NotOwned(db, s.Name)) - 1 + Len(s.Parameters) <= MaxParamId
         /\ arg' = s
         /\ again' = (last[s.Name] = s)
    /\ pre' = db
    /\ \/ /\ tx' = EmptyDB
          /\ pc' = IF variant = "name" THEN "category" ELSE "upsert"
          /\ ret' = NoRet
       \/ /\ tx' = EmptyDB
          /\ pc' = "done"
          /\ ret' = Errorf("begin transaction", <<>>, StorageError)
    /\ UNCHANGED <<variant, db, catID, skillID, k, last, out, raced>>

\* variant of Fail without the deferred tx.Rollback(): the error is
\* returned and the transaction stays open
FailLeavesOpen ==
    /\ pc \in InFlight
    /\ ret' = Errorf(StepName(variant, pc),
                      IF variant = "id" /\ pc = "insert"
                      THEN arg.Parameters[k + 1].Name ELSE <<>>,
                      StorageError)
    /\ pc' = "done"
    /\ db' = Rollback(db, tx)
    /\ UNCHANGED <<variant, arg, tx, catID, skillID, k, pre, again, last, out, raced>>

\* any statement of the transaction fails (storage error, or the context is
\* canceled): Register returns the wrapped error, the deferred tx.Rollback()
\* drops the transaction
Fail ==
    /\ pc \in InFlight
    /\ ret' = Errorf(StepName(variant, pc),
                      IF variant = "id" /\ pc = "insert"
                      THEN arg.Parameters[k + 1].Name ELSE <<>>,
                      StorageError)
    /\ pc' = "done"
    /\ db' = Rollback(db, tx)
    /\ tx' = EmptyDB
    /\ UNCHANGED <<variant, arg, catID, skillID, k, pre, again, last, out, raced>>

\* 1. auto-create category: the first statement of the name variant, it
\* starts from the committed database
ProvisionCategory ==
    /\ pc = "category"
    /\ tx' = InsertCategory(db, arg.Category)
    /\ pc' = "catid"
    /\ UNCHANGED <<variant, db, arg, catID, skillID, k, ret, pre, again, last, out, raced>>

\* get the category id; QueryRow.Scan fails with sql.ErrNoRows on no row
ResolveCategory ==
    /\ pc = "catid"
    /\ \/ \E id \in SelectCategoryId(tx, arg.Category) :
            /\ catID' = id
            /\ pc' = "upsert"
            /\ UNCHANGED <<db, tx, ret>>
       \/ /\ SelectCategoryId(tx, arg.Category) = {}
          /\ ret' = Errorf("get category id", <<>>, ErrNoRows)
          /\ pc' = "done"
          /\ db' = Rollback(db, tx)
          /\ tx' = EmptyDB
          /\ UNCHANGED catID
    /\ UNCHANGED <<variant, arg, skillID, k, pre, again, last, out, raced>>

\* variant of Upsert after which the parameters are inserted without the
\* delete having run
UpsertThenInsert ==
    /\ pc = "upsert"
    /\ LET cid == IF variant = "name" THEN catID ELSE arg.CategoryID
           D == UpsertSkill(IF variant = "name" THEN tx ELSE db,
                            cid, arg.Name, arg.Info)
       IN /\ tx' = D
          /\ \E id \in ReturningId(D, arg.Name) : skillID' = id
    /\ pc' = IF Len(arg.Parameters) > 0 THEN "prepare" ELSE "delete"
    /\ UNCHANGED <<variant, db, arg, catID, k, ret, pre, again, last, out, raced>>

\* 2. upsert skill ... RETURNING id: the first statement of the id variant,
\* where it starts from the committed database
Upsert ==
    /\ pc = "upsert"
    /\ LET cid == IF variant = "name" THEN catID ELSE arg.CategoryID
           D == UpsertSkill(IF variant = "name" THEN tx ELSE db,
                            cid, arg.Name, arg.Info)
       IN /\ tx' = D
          /\ \E id \in ReturningId(D, arg.Name) : skillID' = id
    /\ pc' = "delete"
    /\ UNCHANGED <<variant, db, arg, catID, k, ret, pre, again, last, out, raced>>

\* 3. replace parameters: delete the existing ones
Delete ==
    /\ pc = "delete"
    /\ tx' = DeleteParams(tx, skillID)
    /\ pc' = IF Len(arg.Parameters) > 0 THEN "prepare" ELSE "commit"
    /\ UNCHANGED <<variant, db, arg, catID, skillID, k, ret, pre, again, last, out, raced>>

\* tx.PrepareContext
Prepare ==
    /\ pc = "prepare"
    /\ pc' = "insert"
    /\ UNCHANGED <<variant, db, arg, tx, catID, skillID, k, ret, pre, again, last, out, raced>>

\* one iteration of: for _, p := range skill.Parameters { stmt.ExecContext }
Insert ==
    /\ pc = "insert"
    /\ tx' = InsertParam(tx, skillID, arg.Parameters[k + 1])
    /\ k' = k + 1
    /\ pc' = IF k + 1 = Len(arg.Parameters) THEN "commit" ELSE "insert"
    /\ UNCHANGED <<variant, db, arg, catID, skillID, ret, pre, again, last, out, raced>>

\* tx.Commit() succeeds; return nil
Commit ==
    /\ pc = "commit"
    /\ db' = tx
    /\ tx' = EmptyDB
    /\ ret' = Nil
    /\ pc' = "done"
    /\ last' = [last EXCEPT ![arg.Name] = arg]
    /\ UNCHANGED <<variant, arg, catID, skillID, k, pre, again, out, raced>>

\* Register has returned; the caller drops the result
Return ==
    /\ pc = "done"
    /\ pc' = "idle"
    /\ arg' = NoSkill
    /\ ret' = NoRet
    /\ pre' = EmptyDB
    /\ again' = FALSE
    /\ catID' = 0
    /\ skillID' = 0
    /\ k' = 0
    /\ raced' = FALSE
    /\ UNCHANGED <<variant, db, tx, last, out>>

-----------------------------------------------------------------------------
(* A Register call of another goroutine *)

\* the store lets one transaction write at a time: the call in progress
\* holds the write lock from its first statement to its return
WriteLocked(v, p) ==
    p \in InFlight \ { IF v = "name" THEN "category" ELSE "upsert" }

\* for _, p := range skill.Parameters { stmt.ExecContext(...) }
RECURSIVE InsertParams(_, _, _)
InsertParams(D, sid, ps) ==
    IF ps = <<>> THEN D
    ELSE InsertParams(InsertParam(D, sid, Head(ps)), sid, Tail(ps))

\* the statements of one Register(ctx, s) that commits, run on database D
RegisterAll(D, s) ==
    LET D1 == IF variant = "name" THEN InsertCategory(D, s.Category) ELSE D
        cid == IF variant = "name"
               THEN CHOOSE id \in SelectCategoryId(D1, s.Category) : TRUE
               ELSE s.CategoryID
        D2 == UpsertSkill(D1, cid, s.Name, s.Info)
        sid == CHOOSE id \in ReturningId(D2, s.Name) : TRUE
    IN InsertParams(DeleteParams(D2, sid), sid, s.Parameters)

\* another goroutine registers the same skill name and commits while the
\* call in progress has begun and holds no write lock yet: after its BeginTx
\* and before its first statement
PeerRegister ==
    /\ pc \in InFlight
    /\ ~ WriteLocked(variant, pc)
    /\ raced = FALSE
    /\ \E s \in ConcInputs(variant) :
         /\ s.Name = arg.Name
         /\ NextId(NotOwned(db, s.Name)) - 1 + Len(s.Parameters) <= MaxParamId
         /\ db' = RegisterAll(db, s)
         /\ pre' = RegisterAll(db, s)
         /\ last' = [last EXCEPT ![s.Name] = s]
         /\ again' = (s = arg)
    /\ raced' = TRUE
    /\ UNCHANGED <<variant, pc, arg, tx, catID, skillID, k, ret, out>>

\* another goroutine registers another skill under the category that the
\* call in progress names, a category no row carries yet, and commits in
\* the same window: both calls have begun, neither has found the category
PeerRegisterOther ==
    /\ variant = "name"
    /\ pc = "category"
    /\ raced = FALSE
    /\ \A c \in db.cats : c.name # arg.Category
    /\ \E s \in ConcInputs(variant) :
         /\ s.Name # arg.Name
         /\ s.Category = arg.Category
         /\ NextId(NotOwned(db, s.Name)) - 1 + Len(s.Parameters) <= MaxParamId
         /\ NextId(NotOwned(RegisterAll(db, s), arg.Name)) - 1
              + Len(arg.Parameters) <= MaxParamId
         /\ db' = RegisterAll(db, s)
         /\ pre' = RegisterAll(db, s)
         /\ last' = [last EXCEPT ![s.Name] = s]
    /\ raced' = TRUE
    /\ UNCHANGED <<variant, pc, arg, tx, catID, skillID, k, ret, again, out>>

-----------------------------------------------------------------------------
(* Read operations: one query against the committed database *)

\* variant of Query for a statement that writes: the parameter rows are gone
QueryWrites(D) == [D EXCEPT !.params = {}]

\* s.db.QueryContext(ctx, `SELECT ...`): the committed rows after the
\* statement of a read operation, which is a SELECT and writes nothing,
\* whether it succeeds or fails
Query(D) == D

\* all orders in which a query without ORDER BY may return the rows S
Orders(S) ==
    { f \in [1 .. Cardinality(S) -> S] :
        \A i, j \in DOMAIN f : f[i] = f[j] => i = j }

NoParam == [id |-> 0]     \* the NULL parameter columns of a LEFT JOIN row

\* variant of JoinOn without the join condition
JoinOnAny(s, p) == TRUE

\* FROM skills s LEFT JOIN parameters p ON s.id = p.skill_id WHERE s.name = ?
JoinOn(s, p) == s.id = p.skill_id

\* variant of NameEquals that ignores case (NOCASE / LIKE)
NameEqualsNoCase(a, b) ==
    /\ Len(a) = Len(b)
    /\ \A i \in DOMAIN a : Lower(a[i]) = Lower(b[i])

\* WHERE s.name = ? compares with the BINARY collation: exact, case-sensitive
NameEquals(a, b) == a = b

DetailRows(D, name) ==
    UNION { IF \E p \in D.params : JoinOn(s, p)
            THEN { <<s, p>> : p \in { q \in D.params : JoinOn(s, q) } }
            ELSE { <<s, NoParam>> }
            : s \in { t \in D.skills : NameEquals(t.name, name) } }

\* the Parameter appended for a row whose pID is valid
ScanParameter(p) ==
    [ID |-> p.id, SkillID |-> p.skill_id, Name |-> p.name, Type |-> p.type,
     Description |-> p.info, IsRequired |-> p.req]

\* variant of ScanParameters without the test of pID.Valid: the NULL columns
\* of a skill without parameters become a zero Parameter
ScanParametersAll(rows) ==
    [i \in DOMAIN rows |->
        IF rows[i][2] # NoParam THEN ScanParameter(rows[i][2])
        ELSE [ID |-> 0, SkillID |-> 0, Name |-> <<>>, Type |-> <<>>,
              Description |-> <<>>, IsRequired |-> FALSE]]

RECURSIVE ScanParameters(_)
ScanParameters(rows) ==
    IF rows = <<>> THEN <<>>
    ELSE LET p == Head(rows)[2]
         IN (IF p # NoParam THEN <<ScanParameter(p)>> ELSE <<>>)
              \o ScanParameters(Tail(rows))

\* the loop over rows.Next(): the skill columns of every row overwrite the
\* Skill, the parameter columns are appended when pID is valid
ScanDetail(rows) ==
    LET s == rows[Len(rows)][1]
    IN [ID |-> s.id, CategoryID |-> s.cat_id, Name |-> s.name,
        Description |-> s.info, Parameters |-> ScanParameters(rows)]

\* the three storage errors of GetSkillDetail, and its own error
DetailStorageSteps == { "get skill detail", "scan skill detail", "iterate skill detail" }
NotFound(name) == Err("skill not found", name)

\* names looked up: the registered ones and one that is never registered
LookupNames == SkillNames \cup { <<"b">> }

\* GetSkillDetail(ctx, name)
GetSkillDetail ==
    /\ variant = "id"
    /\ pc = "idle"
    /\ out = NoOut
    /\ \E name \in LookupNames :
         \/ \E step \in DetailStorageSteps :
              out' = [op |-> "detail", name |-> name, err |-> Err(step, <<>>),
                      skill |-> NoSkill]
         \/ /\ DetailRows(db, name) = {}
            /\ out' = [op |-> "detail", name |-> name, err |-> NotFound(name),
                       skill |-> NoSkill]
         \/ /\ DetailRows(db, name) # {}
            /\ \E rows \in Orders(DetailRows(db, name)) :
                 out' = [op |-> "detail", name |-> name, err |-> Nil,
                         skill |-> ScanDetail(rows)]
    /\ db' = Query(db)
    /\ UNCHANGED <<variant, pc, arg, tx, catID, skillID, k, ret, pre, again, last, raced>>

\* the detail read of the variant whose Skill carries the category name:
\* the skill row of that exact name joined with its category row, and with
\* its params as in DetailRows
CategoryDetailRows(D, name) ==
    { <<r[1], c, r[2]>> : <<r, c>> \in
        { rc \in DetailRows(D, name) \X D.cats : rc[1][1].cat_id = rc[2].id } }

\* the rows scanned into one Skill: Category is the joined category's name
ScanCategoryDetail(rows) ==
    LET s == rows[Len(rows)][1]
        c == rows[Len(rows)][2]
        ps == [i \in DOMAIN rows |-> <<s, rows[i][3]>>]
    IN [Category |-> c.name, Name |-> s.name, Info |-> s.info,
        Parameters |->
            LET scanned == ScanParameters(ps)
            IN [i \in DOMAIN scanned |->
                  [Name |-> scanned[i].Name, Type |-> scanned[i].Type,
                   Info |-> scanned[i].Description,
                   Required |-> scanned[i].IsRequired]]]

\* GetSkillDetail(ctx, name) of the variant that registers by category name
GetCategoryDetail ==
    /\ variant = "name"
    /\ pc = "idle"
    /\ out = NoOut
    /\ \E name \in LookupNames :
         \/ out' = [op |-> "categorydetail", name |-> name,
                    err |-> Err("get skill detail", <<>>), skill |-> NoSkill]
         \/ /\ CategoryDetailRows(db, name) = {}
            /\ out' = [op |-> "categorydetail", name |-> name,
                       err |-> NotFound(name), skill |-> NoSkill]
         \/ /\ CategoryDetailRows(db, name) # {}
            /\ \E rows \in Orders(CategoryDetailRows(db, name)) :
                 out' = [op |-> "categorydetail", name |-> name, err |-> Nil,
                         skill |-> ScanCategoryDetail(rows)]
    /\ db' = Query(db)
    /\ UNCHANGED <<variant, pc, arg, tx, catID, skillID, k, ret, pre, again, last, raced>>

\* SQLite LIKE: case-insensitive on ASCII letters (Lower), % matches any run
\* of characters, _ matches any one character
RECURSIVE Like(_, _)
Like(pat, txt) ==
    IF pat = <<>> THEN txt = <<>>
    ELSE IF Head(pat) = "%"
         THEN Like(Tail(pat), txt) \/ (txt # <<>> /\ Like(pat, Tail(txt)))
         ELSE /\ txt # <<>>
              /\ (Head(pat) = "_" \/ Lower(Head(pat)) = Lower(Head(txt)))
              /\ Like(Tail(pat), Tail(txt))

\* q := "%" + query + "%"
Wrap(query) == <<"%">> \o query \o <<"%">>

\* the view catalog: skills JOIN cats, with args the json_group_array of
\* json_object('n', name, 't', type, 'r', req, 'd', info) over the skill's params
JsonObject(p) == [n |-> p.name, t |-> p.type, r |-> p.req, d |-> p.info]

\* variant of Catalog whose args subquery is not correlated with the skill
CatalogUncorrelated(D) ==
    { [cat |-> c.name, name |-> s.name, info |-> s.info, params |-> D.params]
      : <<s, c>> \in { sc \in D.skills \X D.cats : sc[1].cat_id = sc[2].id } }

Catalog(D) ==
    { [cat |-> c.name, name |-> s.name, info |-> s.info,
       params |-> { p \in D.params : p.skill_id = s.id }]
      : <<s, c>> \in { sc \in D.skills \X D.cats : sc[1].cat_id = sc[2].id } }

\* json.Unmarshal(argsJSON, &sk.Parameters): the abbreviated keys n, t, d, r
\* fill Name, Type, Info, Required
Unmarshal(args) ==
    [i \in DOMAIN args |->
        [Name |-> args[i].n, Type |-> args[i].t, Info |-> args[i].d,
         Required |-> args[i].r]]

\* one row of the view scanned into a Skill; args lists the params in order ord
ScanCatalog(row, ord) ==
    [Category |-> row.cat, Name |-> row.name, Info |-> row.info,
     Parameters |-> Unmarshal([i \in DOMAIN ord |-> JsonObject(ord[i])])]

SearchRows(D, query) ==
    { r \in Catalog(D) : Like(Wrap(query), r.name) \/ Like(Wrap(query), r.info) }

\* every result Search can return for the rows: any row order, any order of
\* the params inside args
SearchResults(rows) ==
    LET names == { r.name : r \in rows }
        orders == { f \in [names -> UNION { Orders(r.params) : r \in rows }] :
                      \A r \in rows : f[r.name] \in Orders(r.params) }
    IN UNION { { [i \in DOMAIN ro |-> ScanCatalog(ro[i], po[ro[i].name])]
                 : po \in orders }
               : ro \in Orders(rows) }

SearchStorageSteps == { "search skills", "scan skill", "iterate skills" }
Queries == { <<>>, <<"b">>, <<"_">>, <<"z">> }

\* return skills, nil
SearchReturn(query, res) ==
    [op |-> "search", query |-> query, err |-> Nil, skills |-> res]

\* Search(ctx, query)
Search ==
    /\ variant = "name"
    /\ pc = "idle"
    /\ out = NoOut
    /\ \E query \in Queries :
         \/ \E step \in SearchStorageSteps :
              out' = [op |-> "search", query |-> query, err |-> Err(step, <<>>),
                      skills |-> <<>>]
         \/ \E res \in SearchResults(SearchRows(db, query)) :
              out' = SearchReturn(query, res)
    /\ db' = Query(db)
    /\ UNCHANGED <<variant, pc, arg, tx, catID, skillID, k, ret, pre, again, last, raced>>

\* SELECT id, category_id, name, description FROM skills
\* WHERE name LIKE ? OR description LIKE ?
SearchSkillsRows(D, query) ==
    { s \in D.skills : Like(Wrap(query), s.name) \/ Like(Wrap(query), s.info) }

\* rows.Scan(&skill.ID, &skill.CategoryID, &skill.Name, &skill.Description)
ScanSkill(s) ==
    [ID |-> s.id, CategoryID |-> s.cat_id, Name |-> s.name, Description |-> s.info]

\* every result SearchSkills can return for the rows: any row order
SearchSkillsResults(rows) ==
    { [i \in DOMAIN ro |-> ScanSkill(ro[i])] : ro \in Orders(rows) }

\* SearchSkills(ctx, query)
SearchSkills ==
    /\ variant = "id"
    /\ pc = "idle"
    /\ out = NoOut
    /\ \E query \in Queries :
         \/ \E step \in SearchStorageSteps :
              out' = [op |-> "searchskills", query |-> query,
                      err |-> Err(step, <<>>), skills |-> <<>>]
         \/ \E res \in SearchSkillsResults(SearchSkillsRows(db, query)) :
              out' = [op |-> "searchskills", query |-> query, err |-> Nil,
                      skills |-> res]
    /\ db' = Query(db)
    /\ UNCHANGED <<variant, pc, arg, tx, catID, skillID, k, ret, pre, again, last, raced>>

\* byte value of the characters in use: the order of SQLite's BINARY
\* collation and of Go's string comparison
Ord(c) ==
    CASE c = " " -> 32 [] c = "(" -> 40 [] c = ")" -> 41 [] c = "," -> 44
      [] c = "A" -> 65 [] c = "B" -> 66 [] c = "_" -> 95
      [] c = "a" -> 97 [] c = "b" -> 98 [] c = "f" -> 102 [] c = "i" -> 105
      [] c = "n" -> 110 [] c = "p" -> 112 [] c = "q" -> 113 [] c = "s" -> 115
      [] c = "x" -> 120 [] c = "y" -> 121 [] c = "z" -> 122

\* a < b for strings, byte by byte
RECURSIVE StrLess(_, _)
StrLess(a, b) ==
    IF b = <<>> THEN FALSE
    ELSE IF a = <<>> THEN TRUE
    ELSE IF Ord(Head(a)) # Ord(Head(b)) THEN Ord(Head(a)) < Ord(Head(b))
    ELSE StrLess(Tail(a), Tail(b))

\* variant of IndexRows that lists the categories LEFT JOINed with their
\* skills: a category without a skill gives a row with an empty skill name
IndexRowsAllCats(D) ==
    LET pairs == { p \in D.skills \X D.cats : p[1].cat_id = p[2].id }
    IN { [cat |-> p[2].name, skill |-> p[1].name] : p \in pairs }
       \cup { [cat |-> c.name, skill |-> <<>>]
              : c \in { r \in D.cats : \A s \in D.skills : s.cat_id # r.id } }

\* SELECT c.name, s.name FROM skills s JOIN cats c ON s.cat_id = c.id
IndexRows(D) ==
    LET pairs == { p \in D.skills \X D.cats : p[1].cat_id = p[2].id }
    IN { [cat |-> p[2].name, skill |-> p[1].name] : p \in pairs }

\* variant of RowLessEq that orders by c.name only
RowLessEqByCat(r1, r2) == ~ StrLess(r2.cat, r1.cat)

\* ORDER BY c.name, s.name
RowLessEq(r1, r2) ==
    \/ StrLess(r1.cat, r2.cat)
    \/ r1.cat = r2.cat /\ ~ StrLess(r2.skill, r1.skill)

\* the orders in which the query may return the rows S
OrderBy(S) ==
    { f \in Orders(S) : \A i, j \in DOMAIN f : i < j => RowLessEq(f[i], f[j]) }

\* catMap[cat] = append(catMap[cat], skill), row by row
CatMap(rows) ==
    [c \in { rows[i].cat : i \in DOMAIN rows } |->
        LET sel == SelectSeq(rows, LAMBDA r : r.cat = c)
        IN [i \in DOMAIN sel |-> sel[i].skill]]

RECURSIVE InsertSorted(_, _)
InsertSorted(s, x) ==
    IF s = <<>> THEN <<x>>
    ELSE IF StrLess(x, Head(s)) THEN <<x>> \o s
    ELSE <<Head(s)>> \o InsertSorted(Tail(s), x)

\* variant of SortStrings that leaves the keys in map iteration order
SortStringsNone(s) == s

\* sort.Strings(cats)
RECURSIVE SortStrings(_)
SortStrings(s) ==
    IF s = <<>> THEN <<>> ELSE InsertSorted(SortStrings(Tail(s)), Head(s))

\* strings.Join(elems, sep)
RECURSIVE StringsJoin(_, _)
StringsJoin(elems, sep) ==
    IF elems = <<>> THEN <<>>
    ELSE IF Len(elems) = 1 THEN elems[1]
    ELSE elems[1] \o sep \o StringsJoin(Tail(elems), sep)

\* for i, c := range cats { ... }: the strings.Builder from category i on
RECURSIVE WriteIndex(_, _, _)
WriteIndex(cats, catMap, i) ==
    IF i > Len(cats) THEN <<>>
    ELSE (IF i > 1 THEN <<",", " ">> ELSE <<>>)
         \o cats[i] \o <<"(">> \o StringsJoin(catMap[cats[i]], <<",">>) \o <<")">>
         \o WriteIndex(cats, catMap, i + 1)

\* every string GetIndex can return on D: any row order the query allows,
\* any iteration order of catMap
IndexResults(D) ==
    UNION { { WriteIndex(SortStrings(keys), CatMap(rows), 1)
              : keys \in Orders(DOMAIN CatMap(rows)) }
            : rows \in OrderBy(IndexRows(D)) }

IndexStorageSteps == { "list skills", "scan skill", "iterate skills" }

\* GetIndex(ctx)
GetIndex ==
    /\ variant = "name"
    /\ pc = "idle"
    /\ out = NoOut
    /\ \/ \E step \in IndexStorageSteps :
            out' = [op |-> "index", err |-> Err(step, <<>>), index |-> <<>>]
       \/ \E idx \in IndexResults(db) :
            out' = [op |-> "index", err |-> Nil, index |-> idx]
    /\ db' = Query(db)
    /\ UNCHANGED <<variant, pc, arg, tx, catID, skillID, k, ret, pre, again, last, raced>>

-----------------------------------------------------------------------------
(* Reads by another goroutine while a Register call is in flight *)

\* variant of Visible in which a query sees what the transaction in flight
\* has written so far
VisibleDirty(D, T) == T

\* the reads run on s.db, not on the transaction of Register: a query sees
\* the committed database D, never the working copy T
Visible(D, T) == D

\* GetSkillDetail(ctx, name) of the skill being registered
DetailDuringRegister ==
    /\ variant = "id"
    /\ pc \in InFlight
    /\ out = NoOut
    /\ LET V == Visible(db, tx)
           name == arg.Name
       IN \/ /\ DetailRows(V, name) = {}
             /\ out' = [op |-> "detail", name |-> name, err |-> NotFound(name),
                        skill |-> NoSkill]
          \/ /\ DetailRows(V, name) # {}
             /\ \E rows \in Orders(DetailRows(V, name)) :
                  out' = [op |-> "detail", name |-> name, err |-> Nil,
                          skill |-> ScanDetail(rows)]
    /\ db' = Query(db)
    /\ UNCHANGED <<variant, pc, arg, tx, catID, skillID, k, ret, pre, again, last, raced>>

\* Search(ctx, query) with the name of the skill being registered
SearchDuringRegister ==
    /\ variant = "name"
    /\ pc \in InFlight
    /\ out = NoOut
    /\ \E res \in SearchResults(SearchRows(Visible(db, tx), arg.Name)) :
         out' = SearchReturn(arg.Name, res)
    /\ db' = Query(db)
    /\ UNCHANGED <<variant, pc, arg, tx, catID, skillID, k, ret, pre, again, last, raced>>

\* the tables and views of the DDL text
SchemaText(v) ==
    IF v = "id" THEN <<"categories", "skills", "parameters">>
    ELSE <<"cats", "skills", "params", "catalog">>

\* GetSchemaDescription(): returns the DDL text, touches no storage
GetSchemaDescription ==
    /\ pc = "idle"
    /\ out = NoOut
    /\ out' = [op |-> "schema", ddl |-> SchemaText(variant)]
    /\ UNCHANGED <<variant, db, pc, arg, tx, catID, skillID, k, ret, pre, again, last, raced>>

\* the caller drops the result of a read
Drop ==
    /\ out # NoOut
    /\ out' = NoOut
    /\ UNCHANGED <<variant, db, pc, arg, tx, catID, skillID, k, ret, pre, again, last, raced>>

-----------------------------------------------------------------------------
(* Properties *)

Succeeded == pc = "done" /\ ret = Nil
Failed == pc = "done" /\ ret # Nil

\* a parameter row, and a returned Parameter, compared on name, type,
\* description and required flag
RowView(p) == [Name |-> p.name, Type |-> p.type, Info |-> p.info, Required |-> p.req]
ParameterView(p) ==
    [Name |-> p.Name, Type |-> p.Type, Info |-> p.Description, Required |-> p.IsRequired]

\* multisets, as functions from element to number of copies
BagOfRows(rows) ==
    [v \in { RowView(p) : p \in rows } |->
        Cardinality({ p \in rows : RowView(p) = v })]
BagOfList(l) ==
    [v \in { l[i] : i \in DOMAIN l } |->
        Cardinality({ i \in DOMAIN l : l[i] = v })]

\* the category reference of skill row s is the category given in Skill a
CategoryMatches(D, s, a) ==
    IF variant = "id"
    THEN s.cat_id = a.CategoryID
    ELSE /\ \E c \in D.cats : c.id = s.cat_id
         /\ \A c \in D.cats : c.id = s.cat_id => c.name = a.Category

\* C1: in every reachable state no two skill rows share a name; right after
\* a successful Register(s) exactly one skill row has name s.Name and its
\* category reference is the category given in s.
C1_UniqueSkillName ==
    /\ \A s1, s2 \in db.skills : s1.name = s2.name => s1 = s2
    /\ Succeeded =>
         /\ Cardinality(SkillRows(db, arg.Name)) = 1
         /\ \A s \in SkillRows(db, arg.Name) : CategoryMatches(db, s, arg)

\* a successful Register of an existing name that moves the skill to another
\* category, with a second skill in the store
C1_Witness ==
    /\ Succeeded
    /\ Cardinality(db.skills) = 2
    /\ \E s0 \in SkillRows(pre, arg.Name) : ~CategoryMatches(pre, s0, arg)

\* C2: after a successful Register(s) the parameter rows owned by the skill
\* named s.Name are exactly the list s.Parameters (as a multiset of name,
\* type, description, required): nothing of an earlier registration remains,
\* also when s.Parameters is empty.
C2_ParametersReplaced ==
    Succeeded => BagOfRows(Owned(db, arg.Name)) = BagOfList(arg.Parameters)

\* a successful Register with an empty list of a skill that owned parameters
C2_Witness ==
    /\ Succeeded
    /\ Owned(pre, arg.Name) # {}
    /\ arg.Parameters = <<>>
    /\ NotOwned(db, arg.Name) # {}

InsertSteps == { "insert param", "insert parameter" }

\* C3: when the insertion of a parameter fails during a Register that updates
\* an existing skill, the skill's row (description, category reference) and
\* its parameter rows after the return are those committed before the call.
C3_InsertFailureKeepsSkill ==
    (pc = "done" /\ ret.step \in InsertSteps /\ SkillRows(pre, arg.Name) # {}) =>
        /\ SkillRows(db, arg.Name) = SkillRows(pre, arg.Name)
        /\ Owned(db, arg.Name) = Owned(pre, arg.Name)

\* the second parameter of the batch fails, after the old parameters were
\* deleted and the first new one inserted, in an update that changes the
\* description
C3_Witness ==
    /\ pc = "done"
    /\ ret.step \in InsertSteps
    /\ k = 1
    /\ Owned(pre, arg.Name) # {}
    /\ \E s0 \in SkillRows(pre, arg.Name) : s0.info # arg.Info

\* C4: when Register returns an error, at whichever step, or its context is
\* canceled, the committed categories, skills and parameters are those from
\* before the call.
C4_FailureRollsBack ==
    Failed => db = pre

\* the commit fails after the transaction has provisioned a new category,
\* inserted a new skill row and inserted parameters
C4_Witness ==
    /\ Failed
    /\ variant = "name"
    /\ ret.step = "commit transaction"
    /\ k >= 1
    /\ SkillRows(db, arg.Name) = {}
    /\ \A c \in db.cats : c.name # arg.Category
    /\ db.skills # {}

\* C5: Register of an existing name keeps the skill's id, whatever else
\* changes; the first Register of a name assigns an id no other skill has.
C5_IdPreserved ==
    Succeeded =>
        IF SkillRows(pre, arg.Name) # {}
        THEN { s.id : s \in SkillRows(db, arg.Name) }
               = { s.id : s \in SkillRows(pre, arg.Name) }
        ELSE \A s \in SkillRows(db, arg.Name) :
               s.id \notin { t.id : t \in pre.skills }

\* a re-registration that changes category and description of the skill
\* registered first, with a second skill in the store
C5_Witness ==
    /\ Succeeded
    /\ Cardinality(db.skills) = 2
    /\ \E s0 \in SkillRows(pre, arg.Name) :
         /\ s0.id = 1
         /\ s0.info # arg.Info
         /\ ~CategoryMatches(pre, s0, arg)

\* C6: Register is idempotent: a Register(s) that repeats the last successful
\* Register of that name leaves the categories, the skill rows and every
\* skill's parameters (name, type, description, required) as they were; there
\* is one skill row named s.Name, with one copy of each parameter of s.
C6_Idempotent ==
    (Succeeded /\ again) =>
        /\ db.cats = pre.cats
        /\ db.skills = pre.skills
        /\ \A n \in SkillNames :
             BagOfRows(Owned(db, n)) = BagOfRows(Owned(pre, n))
        /\ Cardinality(SkillRows(db, arg.Name)) = 1
        /\ BagOfRows(Owned(db, arg.Name)) = BagOfList(arg.Parameters)

\* the same Skill, with two parameters, registered again, with a second skill
\* in the store
C6_Witness ==
    /\ Succeeded
    /\ again
    /\ Len(arg.Parameters) = 2
    /\ Cardinality(db.skills) = 2

\* C7: category auto-provisioning is idempotent: no category name has two
\* rows, and every skill registered under a category name references the one
\* row of that name.
C7_OneCategoryRow ==
    variant = "name" =>
        /\ \A c1, c2 \in db.cats : c1.name = c2.name => c1 = c2
        /\ \A n \in SkillNames :
             last[n] # NoSkill =>
                /\ \E c \in db.cats : c.name = last[n].Category
                /\ \A s \in SkillRows(db, n) : CategoryMatches(db, s, last[n])

\* two skills registered under the same category name
C7_Witness ==
    /\ variant = "name"
    /\ \A n \in SkillNames : last[n] # NoSkill
    /\ Cardinality({ last[n].Category : n \in { m \in SkillNames : last[m] # NoSkill } }) = 1
    /\ Cardinality(db.skills) = 2

\* C8: GetSkillDetail(name) of a registered skill returns every parameter of
\* the last successful Register of that name exactly once (name, type,
\* description, required), and no parameter of another skill or of an earlier
\* registration.
C8_DetailComplete ==
    (out.op = "detail" /\ out.err = Nil /\ last[out.name] # NoSkill) =>
        LET ps == out.skill.Parameters
        IN /\ BagOfList([i \in DOMAIN ps |-> ParameterView(ps[i])])
                = BagOfList(last[out.name].Parameters)
           /\ \A i, j \in DOMAIN ps : ps[i].ID = ps[j].ID => i = j
           /\ \A i \in DOMAIN ps : ps[i].SkillID = out.skill.ID

\* the detail of a skill with two parameters while another skill owns
\* parameters too
C8_Witness ==
    /\ out.op = "detail"
    /\ out.err = Nil
    /\ Len(out.skill.Parameters) = 2
    /\ \E p \in db.params : p.skill_id # out.skill.ID

\* C9: GetSkillDetail(name) returns the NotFound error, which names the
\* queried value and differs from every storage error, and no skill, exactly
\* when its query ran and no skill row has exactly that name.
C9_NotFound ==
    out.op = "detail" =>
        /\ out.err = NotFound(out.name) =>
             /\ SkillRows(db, out.name) = {}
             /\ out.skill = NoSkill
        /\ (SkillRows(db, out.name) = {} /\ out.err.step \notin DetailStorageSteps) =>
             out.err = NotFound(out.name)
        /\ SkillRows(db, out.name) # {} => out.err.step # "skill not found"
        /\ NotFound(out.name).step \notin DetailStorageSteps

\* a lookup of a name that differs only in case from a registered name
C9_Witness ==
    /\ out.op = "detail"
    /\ out.err = NotFound(out.name)
    /\ out.name \notin { s.name : s \in db.skills }
    /\ \E s \in db.skills : NameEqualsNoCase(s.name, out.name)

\* C10: for a skill that exists and owns no parameters GetSkillDetail returns
\* the skill with an empty parameter list and no error (unless its query
\* fails), and the catalog Search returns it with zero parameters.
C10_ZeroParameters ==
    /\ (/\ out.op = "detail"
        /\ SkillRows(db, out.name) # {}
        /\ Owned(db, out.name) = {}
        /\ out.err.step \notin DetailStorageSteps) =>
            /\ out.err = Nil
            /\ out.skill.Name = out.name
            /\ out.skill.Parameters = <<>>
    /\ (out.op = "search" /\ out.err = Nil) =>
         \A s \in SearchRows(db, out.query) :
            s.params = {} =>
               /\ \E i \in DOMAIN out.skills : out.skills[i].Name = s.name
               /\ \A i \in DOMAIN out.skills :
                    out.skills[i].Name = s.name => out.skills[i].Parameters = <<>>

\* the detail of a skill that owns no parameters, returned without error
\* while another skill owns parameters
C10_Witness ==
    /\ out.op = "detail"
    /\ out.err = Nil
    /\ out.skill.Parameters = <<>>
    /\ last[out.name].Parameters = <<>>
    /\ db.params # {}

\* the strictly ascending enumeration of a set of strings
Ascending(S) ==
    CHOOSE f \in Orders(S) : \A i, j \in DOMAIN f : i < j => StrLess(f[i], f[j])

\* the texts of seq in order, with sep between neighbours and nowhere else
RECURSIVE Joined(_, _)
Joined(seq, sep) ==
    IF seq = <<>> THEN <<>>
    ELSE LET front == SubSeq(seq, 1, Len(seq) - 1)
         IN (IF front = <<>> THEN <<>> ELSE Joined(front, sep) \o sep) \o seq[Len(seq)]

\* the names of the skills whose category row is named c
SkillsIn(D, c) ==
    { s.name : s \in { t \in D.skills :
                         \E r \in D.cats : r.id = t.cat_id /\ r.name = c } }

\* the names of the categories that hold a skill
IndexedCats(D) ==
    { c.name : c \in { r \in D.cats : \E s \in D.skills : s.cat_id = r.id } }

\* name(skill,skill,...) of one category
Group(D, c) ==
    c \o <<"(">> \o Joined(Ascending(SkillsIn(D, c)), <<",">>) \o <<")">>

IndexText(D) ==
    LET cs == Ascending(IndexedCats(D))
    IN Joined([i \in DOMAIN cs |-> Group(D, cs[i])], <<",", " ">>)

Renumberings(D) ==
    LET cids == { c.id : c \in D.cats } \cup { s.cat_id : s \in D.skills }
        sids == { s.id : s \in D.skills } \cup { p.skill_id : p \in D.params }
    IN { [cats |-> { [c EXCEPT !.id = fc[c.id]] : c \in D.cats },
          skills |-> { [s EXCEPT !.id = fs[s.id], !.cat_id = fc[s.cat_id]]
                       : s \in D.skills },
          params |-> { [p EXCEPT !.skill_id = fs[p.skill_id]] : p \in D.params }]
         : fc \in Permutations(cids), fs \in Permutations(sids) }

\* C12: GetIndex is deterministic and independent of insertion order: on the
\* same registered skills, whatever ids the order of the Register calls gave
\* their rows and whatever order the query and the map iteration take,
\* GetIndex can return one string only
C12_IndexDeterministic ==
    (out.op = "index" /\ out.err = Nil) =>
        \A D \in Renumberings(db) : IndexResults(D) = { out.index }

\* the index of two skills of one category, the later one in the index (ab)
\* registered first
C12_Witness ==
    /\ out.op = "index"
    /\ out.err = Nil
    /\ Cardinality(SkillsIn(db, <<"f">>)) = 2
    /\ \E s \in db.skills : s.name = <<"a", "b">> /\ s.id = 1

\* sub occurs in txt, letter case ignored
Contains(sub, txt) ==
    \E i \in 0 .. Len(txt) - Len(sub) :
        \A j \in 1 .. Len(sub) : Lower(txt[i + j]) = Lower(sub[j])

\* the skills whose name or description contains the query
Matching(D, query) ==
    { s \in D.skills : Contains(query, s.name) \/ Contains(query, s.info) }

\* C13: Search and SearchSkills return exactly the skills whose name or
\* description contains the query as a case-insensitive substring, each
\* once and no other skill
C13_SubstringMatch ==
    (out.op \in { "search", "searchskills" } /\ out.err = Nil) =>
        /\ { out.skills[i].Name : i \in DOMAIN out.skills }
             = { s.name : s \in Matching(db, out.query) }
        /\ Len(out.skills) = Cardinality(Matching(db, out.query))

\* C14: Search and SearchSkills with a query that no skill's name or
\* description contains, and GetIndex on a store without skills, return an
\* empty result (the empty list, the empty string) and a nil error, unless
\* the storage fails
C14_EmptyIsNoError ==
    /\ ( /\ out.op \in { "search", "searchskills" }
         /\ out.err.step \notin SearchStorageSteps
         /\ Matching(db, out.query) = {} )
       => (out.err = Nil /\ out.skills = <<>>)
    /\ ( /\ out.op = "index"
         /\ out.err.step \notin IndexStorageSteps
         /\ db.skills = {} )
       => (out.err = Nil /\ out.index = <<>>)

\* C15: the catalog projection is never stale: every skill that Search
\* returns carries the category name of the last successful Register of its
\* name and a parameter list equal, on name, type, required flag and
\* description, to the list of that Register
C15_CatalogCurrent ==
    (variant = "name" /\ out.op = "search" /\ out.err = Nil) =>
        \A i \in DOMAIN out.skills :
            LET r == out.skills[i]
                reg == last[r.Name]
            IN /\ reg # NoSkill
               /\ r.Category = reg.Category
               /\ BagOfList(r.Parameters) = BagOfList(reg.Parameters)

\* Search returns a skill with two parameters after a skill was registered
\* again under another category (its former category holds no skill now)
\* while another skill owns parameters too
C15_Witness ==
    /\ variant = "name"
    /\ out.op = "search"
    /\ out.err = Nil
    /\ \E i \in DOMAIN out.skills : Len(out.skills[i].Parameters) = 2
    /\ \E c \in db.cats : \A s \in db.skills : s.cat_id # c.id
    /\ Cardinality({ p.skill_id : p \in db.params }) = 2

\* C18: a Register whose category cannot be resolved or created returns an
\* error and commits neither the skill row nor parameters: in the id variant
\* when Skill.CategoryID references no category row, in the name variant
\* when the category steps fail
C18_UnresolvedCategoryRejected ==
    /\ ( /\ pc = "done"
         /\ variant = "id"
         /\ \A c \in pre.cats : c.id # arg.CategoryID )
       => (ret # Nil /\ db = pre)
    /\ ( /\ pc = "done"
         /\ ret.step \in { "upsert category", "get category id" } )
       => db = pre

\* C19: in every committed state every parameter row references an existing
\* skill row and every skill row references an existing category row
C19_ReferentialIntegrity ==
    /\ \A p \in db.params : \E s \in db.skills : s.id = p.skill_id
    /\ \A s \in db.skills : \E c \in db.cats : c.id = s.cat_id

\* C20: the parameter rows owned by one skill have pairwise distinct names,
\* whatever parameter list Register accepted
C20_DistinctParameterNames ==
    \A p, q \in db.params :
        (p.skill_id = q.skill_id /\ p.name = q.name) => p.id = q.id

\* what a reader may see of skill name in database D: nothing when D holds
\* no such skill, else its category, description and parameters
DetailOf(D, name, o) ==
    IF SkillRows(D, name) = {}
    THEN o.err = NotFound(name)
    ELSE /\ o.err = Nil
         /\ \E s \in SkillRows(D, name) :
              /\ o.skill.ID = s.id
              /\ o.skill.CategoryID = s.cat_id
              /\ o.skill.Description = s.info
         /\ BagOfList([i \in DOMAIN o.skill.Parameters |->
                          ParameterView(o.skill.Parameters[i])])
              = BagOfRows(Owned(D, name))

\* the skill a as a reader sees it once its Register has committed
DetailAfter(a, o) ==
    /\ o.err = Nil
    /\ o.skill.CategoryID = a.CategoryID
    /\ o.skill.Description = a.Info
    /\ BagOfList([i \in DOMAIN o.skill.Parameters |->
                     ParameterView(o.skill.Parameters[i])])
         = BagOfList(a.Parameters)

FoundOf(D, name, o) ==
    LET hits == { i \in DOMAIN o.skills : o.skills[i].Name = name }
    IN IF SkillRows(D, name) = {}
       THEN hits = {}
       ELSE /\ Cardinality(hits) = 1
            /\ \A i \in hits : \E s \in SkillRows(D, name) :
                 /\ \E c \in D.cats : c.id = s.cat_id /\ c.name = o.skills[i].Category
                 /\ o.skills[i].Info = s.info
                 /\ BagOfList(o.skills[i].Parameters) = BagOfRows(Owned(D, name))

FoundAfter(a, o) ==
    LET hits == { i \in DOMAIN o.skills : o.skills[i].Name = a.Name }
    IN /\ Cardinality(hits) = 1
       /\ \A i \in hits :
            /\ o.skills[i].Category = a.Category
            /\ o.skills[i].Info = a.Info
            /\ BagOfList(o.skills[i].Parameters) = BagOfList(a.Parameters)

C17_LastCommitWins ==
    (raced /\ pc = "done" /\ ret = Nil) =>
        LET reg == last[arg.Name]
        IN /\ reg = arg
           /\ Cardinality(SkillRows(db, arg.Name)) = 1
           /\ \A s \in SkillRows(db, arg.Name) :
                s.info = reg.Info /\ CategoryMatches(db, s, reg)
           /\ BagOfRows(Owned(db, arg.Name)) = BagOfList(reg.Parameters)

\* the call committed after a call of another goroutine that had given the
\* skill another description and other parameters
C17_Witness ==
    /\ raced
    /\ pc = "done"
    /\ ret = Nil
    /\ Owned(pre, arg.Name) # {}
    /\ BagOfRows(Owned(pre, arg.Name)) # BagOfList(arg.Parameters)
    /\ \E s \in SkillRows(pre, arg.Name) : s.info # arg.Info

\* no two category rows of D carry the same name
UniqueCategoryNames(D) ==
    \A c1, c2 \in D.cats : c1.name = c2.name => c1.id = c2.id

\* C21: no sequence of Register calls produces two category rows with the
\* same name: where Register provisions categories (name variant) the
\* names are unique in the committed database and in every transaction, and
\* in every variant a Register call that starts from unique names leaves
\* them unique
C21_CategoryNamesUnique ==
    /\ variant = "name" => (UniqueCategoryNames(db) /\ UniqueCategoryNames(tx))
    /\ pc = "done" => (UniqueCategoryNames(pre) => UniqueCategoryNames(db))

\* a Register under a category name that already has a row has committed,
\* beside a second category
C21_Witness ==
    /\ variant = "name"
    /\ Succeeded
    /\ Cardinality(db.cats) = 2
    /\ \E c \in pre.cats : c.name = arg.Category

NamedSteps(msg) ==
    (IF msg = "begin transaction" THEN { "begin" } ELSE {})
    \cup (IF msg \in { "upsert category", "get category id" }
          THEN { "category" } ELSE {})
    \cup (IF msg = "upsert skill" THEN { "upsert" } ELSE {})
    \cup (IF msg \in { "delete parameters", "delete params" }
          THEN { "delete" } ELSE {})
    \cup (IF msg \in { "prepare parameter insert", "prepare param insert",
                       "insert parameter", "insert param" }
          THEN { "insert" } ELSE {})
    \cup (IF msg = "commit transaction" THEN { "commit" } ELSE {})

StepAt(p) ==
    CASE p = "idle" -> "begin"
      [] p = "catid" -> "category"
      [] p = "prepare" -> "insert"
      [] OTHER -> p

\* C23: every error Register returns identifies the step that failed: when
\* a call ends with an error at begin, category provisioning, skill upsert,
\* parameter delete, parameter insert or commit, the message names that step
\* and no other, and the error wraps the storage error that caused it
C23_ErrorNamesStep ==
    [][ (pc # "done" /\ pc' = "done" /\ ret' # Nil) =>
          /\ NamedSteps(ret'.step) = { StepAt(pc) }
          /\ ret'.cause \in { StorageError, ErrNoRows } ]_vars

\* a Register of the name variant that failed at the delete, after its
\* category and skill statements went through
C23_Witness ==
    /\ variant = "name"
    /\ Failed
    /\ ret.step = "delete params"
    /\ ret.cause = StorageError
    /\ skillID # 0

NextSteps(v, p) ==
    CASE p = "idle" -> { IF v = "name" THEN "category" ELSE "upsert", "done" }
      [] p = "category" -> { "catid", "done" }
      [] p = "catid" -> { "upsert", "done" }
      [] p = "upsert" -> { "delete", "done" }
      [] p = "delete" -> { "prepare", "commit", "done" }
      [] p = "prepare" -> { "insert", "done" }
      [] p = "insert" -> { "insert", "commit", "done" }
      [] p = "commit" -> { "done" }
      [] p = "done" -> { "idle" }

\* what the transaction sees at step p: the committed rows before its first
\* statement, its own working copy from then on
Working(v, p, D, T) == IF WriteLocked(v, p) THEN T ELSE D

\* C25: the steps of one Register run in the fixed order begin, category,
\* skill upsert, delete of the skill's parameters, inserts in input order,
\* commit: the skill row is written only by the upsert step, parameter rows
\* are removed only by the delete step, which runs when the skill row is
\* there, and added only by the insert steps, the k-th of which adds the
\* k-th input parameter to the k - 1 added before it and to none that the
\* skill owned earlier; nothing is committed before the commit, which is the
\* last step and commits all of it
C25_StepOrder ==
    [][ LET W == Working(variant, pc, db, tx)
            V == Working(variant, pc', db', tx')
        IN /\ pc' # pc => pc' \in NextSteps(variant, pc)
           /\ (pc \in InFlight /\ pc' \in InFlight) =>
                /\ db' = db
                /\ V.cats # W.cats => pc = "category"
                /\ V.skills # W.skills => pc = "upsert"
                /\ W.params \ V.params # {} =>
                     /\ pc = "delete"
                     /\ \E s \in SkillRows(W, arg.Name) : s.id = skillID
                     /\ Owned(V, arg.Name) = {}
                /\ V.params \ W.params # {} =>
                     /\ pc = "insert"
                     /\ W.params \subseteq V.params
                     /\ Cardinality(Owned(W, arg.Name)) = k
                     /\ { RowView(p) : p \in V.params \ W.params }
                          = { arg.Parameters[k + 1] }
           /\ (pc \in InFlight /\ db' # db) =>
                (pc = "commit" /\ pc' = "done" /\ ret' = Nil /\ db' = tx) ]_vars

\* a re-registration of the name variant between its two inserts: the
\* parameters the skill owned are deleted, the first new one is inserted
C25_Witness ==
    /\ variant = "name"
    /\ pc = "insert"
    /\ k = 1
    /\ Len(arg.Parameters) = 2
    /\ Cardinality(Owned(pre, arg.Name)) = 2
    /\ Cardinality(Owned(tx, arg.Name)) = 1
    /\ db = pre

\* the skills of D under the category of that name
SkillsUnder(D, name) ==
    { s \in D.skills : \E c \in D.cats : c.id = s.cat_id /\ c.name = name }

\* C26: two Register calls for different skills that name the same category,
\* which no row carries when they begin, can both commit without error, and
\* then there is exactly one category row of that name and both skills
\* reference it: whenever a call commits after the call of another goroutine
\* committed beside it, the category it names has one row, its own skill
\* references that row, and so does every skill that was under a category of
\* that name before
C26_ConcurrentProvisioning ==
    (variant = "name" /\ raced /\ Succeeded) =>
        LET rows == { c \in db.cats : c.name = arg.Category }
        IN /\ Cardinality(rows) = 1
           /\ \A s \in SkillRows(db, arg.Name) : \E c \in rows : s.cat_id = c.id
           /\ \A s \in SkillsUnder(pre, arg.Category) :
                s.name # arg.Name =>
                    /\ s \in db.skills
                    /\ \E c \in rows : s.cat_id = c.id

\* both calls committed: the other goroutine's call created the category and
\* its skill, the only rows there were, and this call then added its new
\* skill under the same category row
C26_Witness ==
    /\ variant = "name"
    /\ raced
    /\ Succeeded
    /\ SkillRows(pre, arg.Name) = {}
    /\ Cardinality(pre.skills) = 1
    /\ Cardinality(pre.cats) = 1
    /\ Cardinality(db.cats) = 1
    /\ Cardinality(SkillsUnder(db, arg.Category)) = 2

\* no two parameter rows of D share an id
UniqueParamIds(D) ==
    \A p1, p2 \in D.params : p1.id = p2.id => p1 = p2

\* C27: every parameter row that Register inserts gets an id from the
\* store: no two parameter rows share an id, in the committed rows and in
\* the rows a transaction works on, and each insert adds one row whose id is
\* the store's next id, which no row holds, whatever the ID field of the
\* input Parameter is
C27_FreshParameterIds ==
    [][ /\ UniqueParamIds(db')
        /\ UniqueParamIds(tx')
        /\ (pc = "insert" /\ pc' # "done") =>
             /\ Cardinality(tx'.params \ tx.params) = 1
             /\ \A p \in tx'.params \ tx.params :
                  /\ p.id = NextId(tx.params)
                  /\ \A q \in tx.params : q.id # p.id ]_vars

\* a re-registration with two parameters, beside another skill that owns
\* one, committed: none of the new rows has the id its input carried
C27_Witness ==
    /\ variant = "id"
    /\ Succeeded
    /\ Owned(pre, arg.Name) # {}
    /\ Cardinality(Owned(db, arg.Name)) = 2
    /\ NotOwned(db, arg.Name) # {}
    /\ \A p \in Owned(db, arg.Name) :
         \A i \in DOMAIN arg.Parameters : p.id # ParameterID(arg.Parameters[i])

\* C28: Register(s) changes only the skill named s.Name: when the call has
\* returned, with nil or with an error, every skill of another name has the
\* row it had when the call began (id, category reference, description) and
\* owns the parameter rows it owned then, ids included
C28_OtherSkillsUntouched ==
    pc = "done" =>
        \A n \in SkillNames \ { arg.Name } :
            /\ SkillRows(db, n) = SkillRows(pre, n)
            /\ Owned(db, n) = Owned(pre, n)

\* a re-registration that replaced the skill's two parameters and its
\* description committed while the other skill owns a parameter
C28_Witness ==
    /\ Succeeded
    /\ Cardinality(Owned(pre, arg.Name)) = 2
    /\ Owned(db, arg.Name) # Owned(pre, arg.Name)
    /\ \E s \in SkillRows(pre, arg.Name) : s.info # arg.Info
    /\ \E n \in SkillNames \ { arg.Name } : Owned(db, n) # {}

\* what the read operations return for the committed rows D, as far as it
\* does not depend on row order: the index text, and per name the skill and
\* parameter rows a detail read or a search scans
ReadView(D) ==
    [index |-> IndexText(D),
     rows |-> [n \in LookupNames |-> DetailRows(D, n)],
     catalog |-> Catalog(D)]

\* C29: the read operations SearchSkills/Search, GetSkillDetail, GetIndex
\* and GetSchemaDescription leave the committed categories, skills and
\* parameters unchanged, whether they return a result or an error: a step
\* that returns the result of a read changes no row, nothing of a Register
\* call, and so nothing of what a later read returns
C29_ReadsChangeNothing ==
    [][ (out' # out /\ out' # NoOut) =>
          /\ db' = db
          /\ ReadView(db') = ReadView(db)
          /\ UNCHANGED <<tx, pc, arg, catID, skillID, k, ret>> ]_vars

\* a read returned an error while the store holds two skills, both with
\* parameters
C29_Witness ==
    /\ out # NoOut
    /\ out.op \in { "detail", "search", "searchskills", "index" }
    /\ out.err # Nil
    /\ out.err.step # "skill not found"
    /\ Cardinality(db.skills) = 2
    /\ Cardinality({ p.skill_id : p \in db.params }) = 2

\* C30: every Register call that has begun a transaction returns, with the
\* transaction closed: committed, the committed rows being the rows the
\* transaction worked on, when it returns nil, and rolled back, the
\* committed rows being as before, when it returns an error; nil is
\* returned only by the step at which the commit succeeded
C30_RegisterReturns ==
    /\ (pc \in InFlight) ~> (pc = "done")
    /\ [](pc = "done" => (tx = EmptyDB /\ (ret # Nil => db = pre)))
    /\ [][ (pc # "done" /\ pc' = "done") =>
             IF ret' = Nil THEN pc = "commit" /\ db' = tx
             ELSE db' = db ]_vars

\* a re-registration returned the error of its second insert: the
\* transaction is closed and the committed rows are those from before
C30_Witness ==
    /\ Failed
    /\ ret.step \in InsertSteps
    /\ k = 1
    /\ tx = EmptyDB
    /\ db = pre
    /\ Owned(pre, arg.Name) # {}

\* the pieces of text between the occurrences of the character ch
RECURSIVE SplitAt(_, _)
SplitAt(text, ch) ==
    IF text = <<>> THEN << <<>> >>
    ELSE LET rest == SplitAt(Tail(text), ch)
         IN IF Head(text) = ch THEN << <<>> >> \o rest
            ELSE << <<Head(text)>> \o Head(rest) >> \o Tail(rest)

\* an index text read back: its groups in order, each the category name
\* before the parenthesis and the skill names listed inside it
ReadGroup(g) ==
    LET halves == SplitAt(g, "(")
        body == SubSeq(halves[2], 1, Len(halves[2]) - 1)
    IN [cat |-> halves[1],
        skills |-> IF body = <<>> THEN <<>> ELSE SplitAt(body, ",")]

ReadIndex(text) ==
    IF text = <<>> THEN <<>>
    ELSE LET pieces == SplitAt(text, " ")
         IN [i \in DOMAIN pieces |->
               ReadGroup(IF i < Len(pieces)
                         THEN SubSeq(pieces[i], 1, Len(pieces[i]) - 1)
                         ELSE pieces[i])]

\* the places of the index at which the skill name n stands
Places(G, n) ==
    { <<i, j>> \in (DOMAIN G) \X (1 .. Cardinality(SkillNames)) :
        j \in DOMAIN G[i].skills /\ G[i].skills[j] = n }

\* C31: in the string that GetIndex returns every registered skill stands
\* exactly once, in the group of the category that its last successful
\* Register named, no other name stands in it, and a category has a group
\* only if some skill references its row now: a category whose last skill
\* was registered again under another category has no group, though its row
\* is still there
C31_IndexCurrent ==
    (variant = "name" /\ out.op = "index" /\ out.err = Nil) =>
        LET G == ReadIndex(out.index)
        IN /\ \A n \in SkillNames :
                IF last[n] = NoSkill THEN Places(G, n) = {}
                ELSE /\ Cardinality(Places(G, n)) = 1
                     /\ \A p \in Places(G, n) : G[p[1]].cat = last[n].Category
           /\ \A i \in DOMAIN G :
                /\ G[i].skills # <<>>
                /\ \A j \in DOMAIN G[i].skills : G[i].skills[j] \in SkillNames
                /\ \E c \in db.cats :
                     /\ c.name = G[i].cat
                     /\ \E s \in db.skills : s.cat_id = c.id
                /\ \A j \in DOMAIN G : G[j].cat = G[i].cat => j = i
           /\ \A c \in db.cats :
                (\A s \in db.skills : s.cat_id # c.id) =>
                    \A i \in DOMAIN G : G[i].cat # c.name

\* the index after both skills were registered under n, one of them moved
\* there from f: the row of f is still there, the index is n(B,ab) alone
C31_Witness ==
    /\ variant = "name"
    /\ out.op = "index"
    /\ out.err = Nil
    /\ out.index = <<"n", "(", "B", ",", "a", "b", ")">>
    /\ \E c \in db.cats : c.name = <<"f">> /\ \A s \in db.skills : s.cat_id # c.id

Next ==
    \/ SeedCategory
    \/ Begin
    \/ Fail
    \/ ProvisionCategory
    \/ ResolveCategory
    \/ Upsert
    \/ Delete
    \/ Prepare
    \/ Insert
    \/ Commit
    \/ Return
    \/ GetSkillDetail
    \/ GetCategoryDetail
    \/ Search
    \/ SearchSkills
    \/ GetIndex
    \/ GetSchemaDescription
    \/ Drop

Spec == Init /\ [][Next]_vars

\* Register with readers running beside it; the transaction takes its next
\* step once the reader's result is dropped
NextRead ==
    \/ SeedCategory
    \/ Begin /\ arg' \in ConcInputs(variant)
    \/ out = NoOut /\ Fail
    \/ out = NoOut /\ ProvisionCategory
    \/ out = NoOut /\ ResolveCategory
    \/ out = NoOut /\ Upsert
    \/ out = NoOut /\ Delete
    \/ out = NoOut /\ Prepare
    \/ out = NoOut /\ Insert
    \/ out = NoOut /\ Commit
    \/ out = NoOut /\ Return
    \/ DetailDuringRegister
    \/ SearchDuringRegister
    \/ Drop

SpecRead == Init /\ [][NextRead]_vars

\* Register with the Register calls of another goroutine beside it
NextConc ==
    \/ SeedCategory
    \/ Begin /\ arg' \in ConcInputs(variant)
    \/ Fail
    \/ ProvisionCategory
    \/ ResolveCategory
    \/ Upsert
    \/ Delete
    \/ Prepare
    \/ Insert
    \/ Commit
    \/ Return
    \/ PeerRegister
    \/ PeerRegisterOther

SpecConc == Init /\ [][NextConc]_vars

\* a statement of the transaction in progress returns: with an error, or
\* with its result
RegisterStep ==
    \/ Fail
    \/ ProvisionCategory
    \/ ResolveCategory
    \/ Upsert
    \/ Delete
    \/ Prepare
    \/ Insert
    \/ Commit

\* Register calls one after the other, each statement of which returns
NextLive ==
    \/ SeedCategory
    \/ Begin /\ arg' \in ConcInputs(variant)
    \/ RegisterStep
    \/ Return

SpecLive == Init /\ [][NextLive]_vars /\ WF_vars(RegisterStep)

====
